---- MODULE Spec2Model ----
(***************************************************************************)
(* Model of back_end/evaluate.py: the evaluation run of a KG question-     *)
(* answering system (answer F1, Hits@1, hallucination-correction rate,     *)
(* error classification, relation buckets, CSV report).                    *)
(*                                                                         *)
(* Text.  A Python str is a sequence of characters; a character is a       *)
(* one-element name.  The Chinese characters of the source are written by  *)
(* their pinyin: "shei" U+8C01, "chang" U+5531, "de" U+7684, "ye" U+591C,  *)
(* "qu" U+66F2, "shi" U+662F, "ge" U+6B4C, "shou" U+624B, "zuo" U+4F5C,    *)
(* "ci" U+8BCD, "ren" U+4EBA, "na" U+54EA, "gE" U+4E2A, "zhuan" U+4E13,    *)
(* "ji" U+8F91.  "NL" is the newline character.                            *)
(*                                                                         *)
(* Numbers.  Python floats are modelled by exact fractions [n, d] in       *)
(* lowest terms; the values the checked properties compare (0.0, 1.0 and   *)
(* 2/3) are computed by the same operations in both.                       *)
(***************************************************************************)
EXTENDS Integers, Sequences, FiniteSets, TLC

(***************************************************************************)
(* Bounds                                                                  *)
(***************************************************************************)
\* Largest corpus (len(TEST_CASES)) of the specification Spec.
MaxCases == 2

(***************************************************************************)
(* Fractions                                                               *)
(***************************************************************************)
RECURSIVE GCD(_, _)
GCD(a, b) == IF b = 0 THEN a ELSE GCD(b, a % b)

Frac(n, d) == IF n = 0 THEN [n |-> 0, d |-> 1]
              ELSE [n |-> n \div GCD(n, d), d |-> d \div GCD(n, d)]

Zero == Frac(0, 1)
One == Frac(1, 1)

FAdd(x, y) == Frac(x.n * y.d + y.n * x.d, x.d * y.d)
FMul(x, y) == Frac(x.n * y.n, x.d * y.d)
FDiv(x, y) == Frac(x.n * y.d, x.d * y.n)
FInt(k) == Frac(k, 1)

\* round(x, k): x scaled by `scale` (10^k), to the nearest integer.
Round(x, scale) == (2 * x.n * scale + x.d) \div (2 * x.d)

(***************************************************************************)
(* Characters and strings                                                  *)
(***************************************************************************)
SpaceChars == {" ", "NL"}
PunctChars == {",", ";", "!"}

\* \s of the re module
IsSpace(c) == c \in SpaceChars
\* \w of the re module (str patterns: letters, digits, underscore, CJK)
IsWord(c) == c \notin SpaceChars \cup PunctChars

\* str.lower() on one character
LowerChar(c) == CASE c = "A" -> "a" [] c = "B" -> "b" [] OTHER -> c
\* str.lower()
Lower(s) == [k \in 1..Len(s) |-> LowerChar(s[k])]

\* sep.join(list)
RECURSIVE Join(_, _)
Join(sep, list) == IF list = <<>> THEN <<>>
                   ELSE IF Len(list) = 1 THEN list[1]
                   ELSE list[1] \o sep \o Join(sep, Tail(list))

\* set(s.split()): the maximal runs of non-whitespace characters of s
RECURSIVE SplitFrom(_, _, _)
SplitFrom(s, k, cur) ==
    IF k > Len(s) THEN (IF cur = <<>> THEN {} ELSE {cur})
    ELSE IF IsSpace(s[k])
         THEN (IF cur = <<>> THEN {} ELSE {cur}) \cup SplitFrom(s, k + 1, <<>>)
         ELSE SplitFrom(s, k + 1, Append(cur, s[k]))

Split(s) == SplitFrom(s, 1, <<>>)

\* sub in s at position k
OccursAt(sub, s, k) == /\ k >= 1
                       /\ k + Len(sub) - 1 <= Len(s)
                       /\ \A j \in 1..Len(sub) : s[k + j - 1] = sub[j]

\* the `in` operator on str
Contains(s, sub) == \E k \in 1..(Len(s) + 1) : OccursAt(sub, s, k)

\* re.search(pre + "(.+)" + suf, s) is not None; `.` matches anything but a newline
SearchGroup(pre, suf, s) ==
    \E k \in 1..(Len(s) + 1) : \E m \in 1..(Len(s) + 1) :
        /\ OccursAt(pre, s, k)
        /\ m >= k + Len(pre) + 1
        /\ OccursAt(suf, s, m)
        /\ \A j \in (k + Len(pre))..(m - 1) : s[j] # "NL"

\* set(list)
SetOf(list) == {list[k] : k \in 1..Len(list)}

(***************************************************************************)
(* normalize_answer, answer_f1                                             *)
(***************************************************************************)
\* re.sub(r'[^\w\s]', ' ', text.lower())
SubPunct(text) == [k \in 1..Len(text) |->
                      IF IsWord(LowerChar(text[k])) \/ IsSpace(LowerChar(text[k]))
                      THEN LowerChar(text[k]) ELSE " "]

NormalizeNoSub(text) == IF text = <<>> THEN {} ELSE Split(Lower(text))

normalize_answer(text) == IF text = <<>> THEN {} ELSE Split(SubPunct(text))

\* precision instead of the harmonic mean
F1TokensPrecision(pred_tokens, gold_tokens) ==
    IF gold_tokens = {} THEN (IF pred_tokens = {} THEN One ELSE Zero)
    ELSE IF pred_tokens = {} THEN Zero
    ELSE Frac(Cardinality(pred_tokens \cap gold_tokens), Cardinality(pred_tokens))

\* answer_f1 from its two token sets on
F1Tokens(pred_tokens, gold_tokens) ==
    IF gold_tokens = {} THEN (IF pred_tokens = {} THEN One ELSE Zero)
    ELSE IF pred_tokens = {} THEN Zero
    ELSE LET common == pred_tokens \cap gold_tokens
             precision == Frac(Cardinality(common), Cardinality(pred_tokens))
             recall == Frac(Cardinality(common), Cardinality(gold_tokens))
         IN  IF FAdd(precision, recall).n > 0
             THEN FDiv(FMul(FMul(FInt(2), precision), recall), FAdd(precision, recall))
             ELSE Zero

GoldTokens(gold) == normalize_answer(Join(<<" ">>, gold))

answer_f1(pred, gold) == F1Tokens(normalize_answer(pred), GoldTokens(gold))

(***************************************************************************)
(* classify_error, get_relation_type, the patterns of evaluate             *)
(***************************************************************************)
Categories == {"pattern_mismatch", "kg_missing", "correct", "wrong_retrieval"}

\* the emptiness test before the pattern test
ClassifyEmptyFirst(question, golden, system_pred, matched_) ==
    IF system_pred = <<>> THEN "kg_missing"
    ELSE IF ~matched_ THEN "pattern_mismatch"
    ELSE IF SetOf(system_pred) = SetOf(golden) THEN "correct"
    ELSE "wrong_retrieval"

\* >= instead of ==
ClassifySuperset(question, golden, system_pred, matched_) ==
    IF ~matched_ THEN "pattern_mismatch"
    ELSE IF system_pred = <<>> THEN "kg_missing"
    ELSE IF SetOf(golden) \subseteq SetOf(system_pred) THEN "correct"
    ELSE "wrong_retrieval"

\* no return after the last test
ClassifyFallThrough(question, golden, system_pred, matched_) ==
    IF ~matched_ THEN "pattern_mismatch"
    ELSE IF system_pred = <<>> THEN "kg_missing"
    ELSE IF SetOf(system_pred) = SetOf(golden) THEN "correct"
    ELSE "None"

classify_error(question, golden, system_pred, matched_) ==
    IF ~matched_ THEN "pattern_mismatch"
    ELSE IF system_pred = <<>> THEN "kg_missing"
    ELSE IF SetOf(system_pred) = SetOf(golden) THEN "correct"
    ELSE "wrong_retrieval"

get_relation_type(question) ==
    IF Contains(question, <<"zuo", "ci">>) THEN "zuoci"
    ELSE IF Contains(question, <<"chang">>) \/ Contains(question, <<"ge", "shou">>)
         THEN "geshou"
    ELSE "qita"

PatLyricist(q) == SearchGroup(<<"ge", "qu">>, <<"de", "zuo", "ci", "ren", "shi">>, q)
PatSungBy(q) == SearchGroup(<<>>, <<"shi", "shei", "chang", "de">>, q)
PatWhoSang(q) == SearchGroup(<<"shei", "chang", "de">>, <<>>, q)
PatWhoWrote(q) == SearchGroup(<<"shei", "zuo", "ci", "de">>, <<>>, q)
PatAlbum(q) == SearchGroup(<<>>, <<"shi", "na", "gE", "zhuan", "ji", "de">>, q)

\* the list without the "who sang (X)" pattern
MatchedNoWhoSang(q) ==
    PatLyricist(q) \/ PatSungBy(q) \/ PatWhoWrote(q) \/ PatAlbum(q)

\* matched = any([...])
Matched(q) ==
    PatLyricist(q) \/ PatSungBy(q) \/ PatWhoSang(q) \/ PatWhoWrote(q) \/ PatAlbum(q)

(***************************************************************************)
(* The steps of one loop iteration of evaluate                             *)
(***************************************************************************)
\* res["data"] whatever the state
SystemAnsIgnoreState(r) == r.data

\* system_ans = res["data"] if res["state"] == 0 else []
SystemAns(r) == IF r.state = 0 THEN r.data ELSE <<>>

\* final_str = ", ".join(system_ans)
FinalStr(sys) == Join(<<",", " ">>, sys)

\* if system_ans and set(system_ans) & set(golden)
Hits(sys, gold) == sys # <<>> /\ SetOf(sys) \cap SetOf(gold) # {}

\* llm_correct = set(normalize_answer(llm_ans)) >= set([g.lower() for g in golden])
LlmCorrect(llm, gold) ==
    {Lower(gold[k]) : k \in 1..Len(gold)} \subseteq normalize_answer(llm)

HdrDenominator(correct, den) == IF ~correct THEN den + 1 ELSE den

\* the superset test outside the `if not llm_correct` block
HdrNumeratorUngated(correct, sys, gold, num) ==
    IF SetOf(gold) \subseteq SetOf(sys) THEN num + 1 ELSE num

HdrNumerator(correct, sys, gold, num) ==
    IF ~correct /\ SetOf(gold) \subseteq SetOf(sys) THEN num + 1 ELSE num

\* defaultdict(int): a missing key reads as 0
Count(stats, key) == IF key \in DOMAIN stats THEN stats[key] ELSE 0

\* error_stats[err_type] += 1
Bump(stats, key) ==
    [k \in DOMAIN stats \cup {key} |-> IF k = key THEN Count(stats, k) + 1 ELSE stats[k]]

\* relation_stats[rel]["count"] += 1; relation_stats[rel]["f1"] += f1
BumpRelation(stats, r, f) ==
    IF r \in DOMAIN stats
    THEN [stats EXCEPT ![r] = [@ EXCEPT !.count = @ + 1, !.f1 = FAdd(@, f)]]
    ELSE stats

Row(q, gold, llm, sys, f, err, r) ==
    [question |-> q,
     golden_answer |-> Join(<<";", " ">>, gold),
     llm_answer |-> llm,
     system_answer |-> Join(<<";", " ">>, sys),
     f1_score |-> Round(f, 10000),
     error_type |-> err,
     relation_type |-> r]

fieldnames == <<"question", "golden_answer", "llm_answer", "system_answer",
                "f1_score", "error_type", "relation_type">>

SummaryRow(avg, hits, h) ==
    [question |-> "=== SUMMARY ===",
     golden_answer |-> "",
     llm_answer |-> "",
     system_answer |-> "",
     f1_score |-> Round(FDiv(avg, FInt(100)), 10000),
     error_type |-> [F1 |-> Round(avg, 100), Hits1 |-> Round(hits, 100),
                     HDR |-> Round(h, 100)],
     relation_type |-> ""]

(***************************************************************************)
(* Inputs: test cases and the results of query_handler                     *)
(***************************************************************************)
Q_WhoSangYeQu == <<"shei", "chang", "de", "ye", "qu">>
Q_WhoSang == <<"shei", "chang", "de">>
Q_WhoSangNL == <<"shei", "chang", "de", "NL">>
Q_SungBy == <<"ye", "qu", "shi", "shei", "chang", "de">>
Q_Lyricist == <<"ge", "qu", "ye", "qu", "de", "zuo", "ci", "ren", "shi">>
Q_LyricistNoTitle == <<"ge", "qu", "de", "zuo", "ci", "ren", "shi">>
Q_WhoWrote == <<"shei", "zuo", "ci", "de", "ye", "qu">>
Q_Album == <<"ye", "qu", "shi", "na", "gE", "zhuan", "ji", "de">>
Q_Singer == <<"ye", "qu", "de", "ge", "shou">>

Questions == {Q_WhoSangYeQu, Q_WhoSang, Q_WhoSangNL, Q_SungBy, Q_Lyricist,
              Q_LyricistNoTitle, Q_WhoWrote, Q_Album, Q_Singer}

S_a == <<"a">>
S_b == <<"b">>
S_A == <<"A">>
S_ab == <<"a", " ", "b">>
S_bang == <<"!">>
S_Ab == <<"A", ",", " ", "b", "!">>

Golds == {<<>>, <<S_a>>, <<S_a, S_b>>, <<S_b, S_a>>, <<S_A>>, <<S_ab>>}
LlmAnswers == {<<>>, S_a, S_b, S_Ab}
DataLists == {<<>>, <<S_a>>, <<S_b>>, <<S_a, S_b>>, <<S_ab>>, <<S_bang>>}

Case(q, g, l) == [question |-> q, golden_answer |-> g, llm_answer |-> l]

\* every combination of question, gold answers and baseline answer
AllCases == {Case(q, g, l) : q \in Questions, g \in Golds, l \in LlmAnswers}

\* the cases of the corpora of more than one case
CorpusCases == {Case(Q_WhoSangYeQu, <<S_a>>, S_b),
                Case(Q_WhoSang, <<S_a>>, S_a),
                Case(Q_Lyricist, <<S_a, S_b>>, S_Ab),
                Case(Q_Album, <<>>, <<>>),
                Case(Q_SungBy, <<S_ab>>, S_ab)}

RECURSIVE SeqsUpTo(_, _)
SeqsUpTo(S, n) == IF n = 0 THEN {<<>>}
                  ELSE LET shorter == SeqsUpTo(S, n - 1)
                       IN  shorter \cup {Append(s, c) : s \in shorter, c \in S}

\* what query_handler returns: state 0 with the answers, or another state
Results == {[state |-> 0, data |-> d] : d \in DataLists}
           \cup {[state |-> 1, data |-> d] : d \in {<<>>, <<S_a>>}}

(***************************************************************************)
(* State                                                                   *)
(***************************************************************************)
VARIABLES TEST_CASES, pc, error, i,
          f1_total, hits_at_1, hdr_numerator, hdr_denominator,
          error_stats, relation_stats, results_rows,
          question, golden, llm_ans, res, system_ans, final_str, matched,
          f1, llm_correct, err_type, rel,
          avg_f1, hits_at_1_rate, hdr, report

inputs == <<TEST_CASES>>
totals == <<f1_total, hits_at_1, hdr_numerator, hdr_denominator,
            error_stats, relation_stats, results_rows>>
locals == <<question, golden, llm_ans, res, system_ans, final_str, matched,
            f1, llm_correct, err_type, rel>>
finals == <<avg_f1, hits_at_1_rate, hdr, report>>
vars == <<inputs, pc, error, i, totals, locals, finals>>

total == Len(TEST_CASES)

\* evaluate up to the loop (lines 48-58); the loop's locals are not bound yet
Start ==
    /\ pc = "loop"
    /\ error = "none"
    /\ i = 0
    /\ f1_total = Zero
    /\ hits_at_1 = 0
    /\ hdr_numerator = 0
    /\ hdr_denominator = 0
    /\ error_stats = <<>>
    /\ relation_stats = [r \in {"geshou", "zuoci"} |->
                            [p |-> 0, r |-> 0, f1 |-> Zero, count |-> 0]]
    /\ results_rows = <<>>
    /\ question = <<>>
    /\ golden = <<>>
    /\ llm_ans = <<>>
    /\ res = [state |-> 0, data |-> <<>>]
    /\ system_ans = <<>>
    /\ final_str = <<>>
    /\ matched = FALSE
    /\ f1 = Zero
    /\ llm_correct = FALSE
    /\ err_type = ""
    /\ rel = ""
    /\ avg_f1 = Zero
    /\ hits_at_1_rate = Zero
    /\ hdr = Zero
    /\ report = <<>>

Init == TEST_CASES \in SeqsUpTo(CorpusCases, MaxCases) /\ Start

InitCase == TEST_CASES \in SeqsUpTo(AllCases, 1) /\ Start

(***************************************************************************)
(* Actions                                                                 *)
(***************************************************************************)
\* One iteration of the loop (lines 60-115) in which query_handler returns r.
Iteration(r) ==
    LET tc == TEST_CASES[i + 1]
        q == tc.question
        gold == tc.golden_answer
        llm == tc.llm_answer
        sys == SystemAns(r)
        str == FinalStr(sys)
        m == Matched(q)
        f == answer_f1(str, gold)
        correct == LlmCorrect(llm, gold)
        err == classify_error(q, gold, sys, m)
        rl == get_relation_type(q)
    IN  /\ question' = q
        /\ golden' = gold
        /\ llm_ans' = llm
        /\ res' = r
        /\ system_ans' = sys
        /\ final_str' = str
        /\ matched' = m
        /\ f1' = f
        /\ f1_total' = FAdd(f1_total, f)
        /\ hits_at_1' = IF Hits(sys, gold) THEN hits_at_1 + 1 ELSE hits_at_1
        /\ llm_correct' = correct
        /\ hdr_denominator' = HdrDenominator(correct, hdr_denominator)
        /\ hdr_numerator' = HdrNumerator(correct, sys, gold, hdr_numerator)
        /\ err_type' = err
        /\ error_stats' = Bump(error_stats, err)
        /\ rel' = rl
        /\ relation_stats' = BumpRelation(relation_stats, rl, f)
        /\ results_rows' = Append(results_rows, Row(q, gold, llm, sys, f, err, rl))

ProcessCase ==
    /\ pc = "loop"
    /\ i < total
    /\ \E r \in Results : Iteration(r)
    /\ i' = i + 1
    /\ UNCHANGED <<inputs, pc, error, finals>>

\* an exception of query_handler still writes the rows collected so far
RaiseFlushesReport == <<fieldnames>> \o results_rows

\* what is in evaluation_results.csv after query_handler raised (line 67):
\* the file is opened only at line 140
ReportAfterRaise == report

\* query_handler raises: the exception leaves evaluate (lines 61-67)
QueryRaises ==
    /\ pc = "loop"
    /\ i < total
    /\ question' = TEST_CASES[i + 1].question
    /\ golden' = TEST_CASES[i + 1].golden_answer
    /\ llm_ans' = TEST_CASES[i + 1].llm_answer
    /\ pc' = "raised"
    /\ error' = "query_handler"
    /\ report' = ReportAfterRaise
    /\ UNCHANGED <<inputs, i, totals, res, system_ans, final_str, matched, f1,
                   llm_correct, err_type, rel, avg_f1, hits_at_1_rate, hdr>>

\* hdr_numerator / hdr_denominator * 100 if hdr_denominator > 0 else 0.0
HdrRate(num, den) == IF den > 0 THEN FMul(FDiv(FInt(num), FInt(den)), FInt(100)) ELSE Zero

\* after the loop with an empty corpus: f1_total / total divides by zero (line 118)
FinalizeEmpty ==
    /\ pc = "loop"
    /\ i = total
    /\ total = 0
    /\ pc' = "raised"
    /\ error' = "ZeroDivisionError"
    /\ UNCHANGED <<inputs, i, totals, locals, finals>>

\* after the loop: the ratios (lines 118-120) and the report (lines 139-163);
\* opening the report file may fail
Finalize ==
    /\ pc = "loop"
    /\ i = total
    /\ total > 0
    /\ avg_f1' = FMul(FDiv(f1_total, FInt(total)), FInt(100))
    /\ hits_at_1_rate' = FMul(FDiv(FInt(hits_at_1), FInt(total)), FInt(100))
    /\ hdr' = HdrRate(hdr_numerator, hdr_denominator)
    /\ \/ /\ pc' = "done"
          /\ error' = "none"
          /\ report' = <<fieldnames>> \o results_rows
                           \o <<SummaryRow(avg_f1', hits_at_1_rate', hdr')>>
       \/ /\ pc' = "raised"
          /\ error' = "OSError"
          /\ report' = report
    /\ UNCHANGED <<inputs, i, totals, locals>>

Next == ProcessCase \/ QueryRaises \/ FinalizeEmpty \/ Finalize

\* corpora of up to MaxCases cases out of CorpusCases
Spec == Init /\ [][Next]_vars

\* corpora of at most one case, the case any of AllCases
SpecCase == InitCase /\ [][Next]_vars

(***************************************************************************)
(* Properties                                                              *)
(***************************************************************************)
\* The loop's locals are those of the case TEST_CASES[i], fully processed.
Scored == i > 0 /\ error # "query_handler"

ErrorTotal == Count(error_stats, "pattern_mismatch") + Count(error_stats, "kg_missing")
              + Count(error_stats, "correct") + Count(error_stats, "wrong_retrieval")

\* The questions of Questions that re.search finds one of the five patterns in.
MatchingQuestions == {Q_WhoSangYeQu, Q_SungBy, Q_Lyricist, Q_WhoWrote, Q_Album}

SetEqual == SetOf(system_ans) = SetOf(golden)
Disjoint == SetOf(system_ans) \cap SetOf(golden) = {}

\* C1: every processed case increments exactly one of the four category
\* counters: after i cases the four counters sum to i, no other counter exists,
\* and when the run is done they sum to the corpus size.
C1_CategoriesSumToProcessed ==
    /\ DOMAIN error_stats \subseteq Categories
    /\ ErrorTotal = i
    /\ (Scored => err_type \in Categories)
    /\ (pc = "done" => ErrorTotal = total)

C1_Witness ==
    /\ pc = "done"
    /\ total = 2
    /\ Count(error_stats, "pattern_mismatch") = 1
    /\ Count(error_stats, "correct") = 1

\* C2: hdr_numerator <= hdr_denominator <= cases processed so far <= corpus size.
C2_HdrBounds ==
    /\ hdr_numerator <= hdr_denominator
    /\ hdr_denominator <= i
    /\ i <= total

C2_Witness == hdr_numerator = 1 /\ hdr_denominator = 2 /\ i = 2

\* C3: with an empty corpus evaluate completes without raising.
C3_EmptyCorpusCompletes == total = 0 => pc # "raised"

\* C4 (as claimed): answer_f1("a b", ["a"]) differs from answer_f1("a", ["a", "b"]).
C4_Asymmetric ==
    (Scored /\ final_str = S_ab /\ golden = <<S_a>>)
        => f1 # answer_f1(S_a, <<S_a, S_b>>)

\* C4 (amended): answer_f1 is symmetric under swapping the prediction's token
\* set with the gold token set; answer_f1("a b", ["a"]) and
\* answer_f1("a", ["a", "b"]) are both 2/3.
C4_Symmetric ==
    Scored =>
        /\ f1 = F1Tokens(GoldTokens(golden), normalize_answer(final_str))
        /\ (final_str = S_ab /\ golden = <<S_a>>)
               => (f1 = Frac(2, 3) /\ f1 = answer_f1(S_a, <<S_a, S_b>>))

C4_Witness ==
    Scored /\ final_str = S_ab /\ golden = <<S_a>> /\ f1 = Frac(2, 3)

\* C5 (as claimed): the question "shei chang de ye qu" matches no pattern and
\* its category is pattern_mismatch whatever query_handler returns.
C5_WhoSangYeQuMismatch ==
    (Scored /\ question = Q_WhoSangYeQu)
        => (~matched /\ err_type = "pattern_mismatch")

\* C5 (amended): the question "shei chang de ye qu" matches the pattern
\* "shei chang de (.+)", so its category is never pattern_mismatch: it is
\* kg_missing for an empty system answer, correct for one set-equal to gold,
\* wrong_retrieval otherwise.
C5_WhoSangYeQuMatched ==
    (Scored /\ question = Q_WhoSangYeQu) =>
        /\ matched
        /\ err_type = (IF system_ans = <<>> THEN "kg_missing"
                       ELSE IF SetEqual THEN "correct" ELSE "wrong_retrieval")

C5_Witness ==
    Scored /\ question = Q_WhoSangYeQu /\ system_ans = <<S_a>> /\ golden = <<S_a>>
           /\ err_type = "correct"

\* C6 (as claimed): pattern matched and system answers set-equal to gold, both
\* empty included: category correct, f1 = 1.0, a Hits@1 hit.
C6_SetEqualCorrect ==
    (Scored /\ matched /\ SetEqual)
        => (err_type = "correct" /\ f1 = One /\ hits_at_1 = 1)

\* C6 (amended): pattern matched and a non-empty system answer list set-equal
\* to gold: category correct, f1 = 1.0, a Hits@1 hit; when both lists are empty
\* the category is kg_missing, f1 = 1.0 and the case is no hit.
C6_NonEmptySetEqualCorrect ==
    (Scored /\ matched /\ SetEqual) =>
        IF system_ans # <<>>
        THEN err_type = "correct" /\ f1 = One /\ hits_at_1 = 1
        ELSE err_type = "kg_missing" /\ f1 = One /\ hits_at_1 = 0

C6_Witness ==
    Scored /\ matched /\ system_ans = <<S_a, S_b>> /\ golden = <<S_b, S_a>>
           /\ err_type = "correct" /\ f1 = One /\ hits_at_1 = 1

\* C7 (as claimed): pattern matched and a non-empty system answer list disjoint
\* from gold as raw strings: category wrong_retrieval and f1 = 0.0.
C7_DisjointZeroF1 ==
    (Scored /\ matched /\ system_ans # <<>> /\ Disjoint)
        => (err_type = "wrong_retrieval" /\ f1 = Zero)

\* C7 (amended): pattern matched and a non-empty system answer list disjoint
\* from gold as raw strings: category wrong_retrieval; f1 = 0.0 exactly when
\* the normalized tokens of the joined system answers and of the gold answers
\* share no token and are not both empty.
C7_DisjointWrongRetrieval ==
    (Scored /\ matched /\ system_ans # <<>> /\ Disjoint) =>
        /\ err_type = "wrong_retrieval"
        /\ f1 = Zero <=>
               /\ normalize_answer(final_str) \cap GoldTokens(golden) = {}
               /\ normalize_answer(final_str) \cup GoldTokens(golden) # {}

C7_Witness ==
    Scored /\ matched /\ system_ans = <<S_ab>> /\ golden = <<S_a>>
           /\ err_type = "wrong_retrieval" /\ f1 = Frac(2, 3)

\* C8: the guards apply in priority order: pattern_mismatch exactly when the
\* question matches none of the five patterns (whatever the answers),
\* kg_missing exactly when matched with an empty system answer, correct exactly
\* when matched with a non-empty answer set-equal to gold, wrong_retrieval
\* exactly otherwise.
C8_PriorityOrder ==
    Scored =>
        /\ matched = (question \in MatchingQuestions)
        /\ (err_type = "pattern_mismatch") = (~matched)
        /\ (err_type = "kg_missing") = (matched /\ system_ans = <<>>)
        /\ (err_type = "correct") = (matched /\ system_ans # <<>> /\ SetEqual)
        /\ (err_type = "wrong_retrieval")
               = (matched /\ system_ans # <<>> /\ ~SetEqual)

C8_Witness ==
    Scored /\ ~matched /\ question = Q_Singer /\ system_ans = <<S_a>>
           /\ golden = <<S_a>> /\ err_type = "pattern_mismatch"

\* C9: the report is written only after every case has been scored, one row
\* per case in corpus order; when query_handler raises, the run ends with
\* nothing written to the report and no ratio computed.
C9_ReportOnlyAfterAllScored ==
    /\ Len(results_rows) = i
    /\ \A k \in 1..i : results_rows[k].question = TEST_CASES[k].question
    /\ (Len(report) > 0) =>
           /\ pc = "done"
           /\ i = total
           /\ Len(report) = total + 2
           /\ \A k \in 1..total : report[k + 1] = results_rows[k]
    /\ (error = "query_handler") =>
           /\ pc = "raised"
           /\ Len(report) = 0
           /\ avg_f1 = Zero /\ hits_at_1_rate = Zero /\ hdr = Zero

C9_Witness ==
    error = "query_handler" /\ i = 1 /\ Len(results_rows) = 1 /\ Len(report) = 0

\* C10: a case whose downstream system answer list is empty (query_handler
\* returned a non-zero state, or state 0 with empty data) does not increment
\* hdr_numerator.
C10_EmptyAnswerNoCorrection ==
    [][(i' = i + 1 /\ (res'.state # 0 \/ res'.data = <<>>))
          => (system_ans' = <<>> /\ hdr_numerator' = hdr_numerator)]_vars

C10_Witness ==
    Scored /\ res.state = 1 /\ res.data = <<S_a>> /\ golden = <<S_a>>
           /\ ~llm_correct /\ hdr_denominator = 1 /\ hdr_numerator = 0

====
